---- MODULE Spec2Model ----
(***************************************************************************)
(* Model of the MRV carbon dashboard (src/app.py): the emission            *)
(* calculators, the aggregation done by main() for the two sectors, and   *)
(* the reporting section that names the dominant source.                   *)
(*                                                                         *)
(* Python floats are IEEE-754 binary64 numbers.  The model keeps their     *)
(* precision: a float is a sign, a 53-bit significand and a binary         *)
(* exponent, and every arithmetic operation rounds its exact result to     *)
(* nearest, ties to even, as the hardware does.  Significands do not fit   *)
(* TLC's 32-bit integers, so they are kept as little-endian sequences of   *)
(* 15-bit limbs.  Intermediate values are handed on as operator arguments  *)
(* rather than LET definitions, so that TLC evaluates each once.           *)
(* Exponent overflow, subnormals, infinities and NaN are    *)
(* outside every quantity the model draws and are not represented; the     *)
(* two zeros are collapsed into one (Python compares them equal).          *)
(***************************************************************************)
EXTENDS Integers, Sequences, FiniteSets, TLC

(***************************************************************************)
(* Natural numbers of arbitrary size (significands and exact products).    *)
(***************************************************************************)
LimbBits == 15
LimbBase == 32768
MantBits == 53

Limb(a, i) == IF i <= Len(a) THEN a[i] ELSE 0

RECURSIVE BNorm(_)
BNorm(a) ==
    IF a = <<>> THEN a
    ELSE IF a[Len(a)] = 0 THEN BNorm(SubSeq(a, 1, Len(a) - 1)) ELSE a

RECURSIVE BFromNat(_)
BFromNat(n) ==
    IF n = 0 THEN <<>> ELSE <<n % LimbBase>> \o BFromNat(n \div LimbBase)

RECURSIVE BAddC(_, _, _, _)
BAddC(a, b, i, c) ==
    IF i > Len(a) /\ i > Len(b)
    THEN (IF c = 0 THEN <<>> ELSE <<c>>)
    ELSE LET s == Limb(a, i) + Limb(b, i) + c
         IN  <<s % LimbBase>> \o BAddC(a, b, i + 1, s \div LimbBase)

BAdd(a, b) == BAddC(a, b, 1, 0)

RECURSIVE BSubC(_, _, _, _)
BSubC(a, b, i, c) ==
    IF i > Len(a) THEN <<>>
    ELSE LET d == a[i] - Limb(b, i) - c
         IN  IF d < 0 THEN <<d + LimbBase>> \o BSubC(a, b, i + 1, 1)
                      ELSE <<d>> \o BSubC(a, b, i + 1, 0)

\* a - b for a >= b
BSub(a, b) == BNorm(BSubC(a, b, 1, 0))

RECURSIVE BCmpAt(_, _, _)
BCmpAt(a, b, i) ==
    IF i = 0 THEN 0
    ELSE IF a[i] > b[i] THEN 1
    ELSE IF a[i] < b[i] THEN -1
    ELSE BCmpAt(a, b, i - 1)

\* -1, 0, 1 as a < b, a = b, a > b
BCmp(a, b) ==
    IF Len(a) > Len(b) THEN 1
    ELSE IF Len(a) < Len(b) THEN -1
    ELSE BCmpAt(a, b, Len(a))

RECURSIVE BMulSmallC(_, _, _, _)
BMulSmallC(a, d, i, c) ==
    IF i > Len(a)
    THEN (IF c = 0 THEN <<>> ELSE <<c>>)
    ELSE LET p == a[i] * d + c
         IN  <<p % LimbBase>> \o BMulSmallC(a, d, i + 1, p \div LimbBase)

\* a * d for a single limb d
BMulSmall(a, d) == IF d = 0 THEN <<>> ELSE BMulSmallC(a, d, 1, 0)

RECURSIVE Zeros(_)
Zeros(k) == IF k = 0 THEN <<>> ELSE <<0>> \o Zeros(k - 1)

BShlLimbs(a, k) == IF a = <<>> THEN a ELSE Zeros(k) \o a

RECURSIVE BMulAt(_, _, _)
BMulAt(a, b, j) ==
    IF j > Len(b) THEN <<>>
    ELSE BAdd(BShlLimbs(BMulSmall(a, b[j]), j - 1), BMulAt(a, b, j + 1))

BMul(a, b) == BMulAt(a, b, 1)

\* a * 2^k
BShl(a, k) == BShlLimbs(BMulSmall(a, 2 ^ (k % LimbBits)), k \div LimbBits)

\* long division by a single limb d > 0, from the top limb down: r is the
\* running remainder, q the quotient limbs so far
RECURSIVE BDivSmallAt(_, _, _, _, _)
BDivSmallStep(a, d, i, cur, q) ==
    BDivSmallAt(a, d, i - 1, cur % d, <<cur \div d>> \o q)

BDivSmallAt(a, d, i, r, q) ==
    IF i = 0 THEN [q |-> BNorm(q), r |-> r]
    ELSE BDivSmallStep(a, d, i, r * LimbBase + a[i], q)

\* quotient and remainder of a by a single limb d > 0
BDivSmall(a, d) == BDivSmallAt(a, d, Len(a), 0, <<>>)

\* floor(a / 2^k)
BShr(a, k) ==
    LET drop == k \div LimbBits
        hi   == IF drop >= Len(a) THEN <<>> ELSE SubSeq(a, drop + 1, Len(a))
    IN  BDivSmall(hi, 2 ^ (k % LimbBits)).q

BitLenLimb(x) == CHOOSE n \in 0..LimbBits : x < 2 ^ n /\ (n = 0 \/ x >= 2 ^ (n - 1))

BBitLen(a) ==
    IF a = <<>> THEN 0 ELSE LimbBits * (Len(a) - 1) + BitLenLimb(a[Len(a)])

BOdd(a) == a # <<>> /\ a[1] % 2 = 1

(***************************************************************************)
(* binary64 values: (-1)^neg * m * 2^e with 2^52 <= m < 2^53, or zero.     *)
(***************************************************************************)
FZero == [neg |-> FALSE, m |-> <<>>, e |-> 0]

IsZero(x) == x.m = <<>>

\* The float nearest to (-1)^neg * (n + f) * 2^e, where 0 <= f < 1 and
\* sticky says f > 0 (a division's remainder); ties go to the even significand.
\* The steps: q is n without its low sh bits, c compares the bits cut off
\* with one half, q1 is q rounded; a q1 of 54 bits is 2^53 and loses a bit.
FPack(neg, q1, e) ==
    IF BBitLen(q1) > MantBits
    THEN [neg |-> neg, m |-> BShr(q1, 1), e |-> e + 1]
    ELSE [neg |-> neg, m |-> q1, e |-> e]

FRoundUp(neg, q, e, c, sticky) ==
    FPack(neg,
          IF c > 0 \/ (c = 0 /\ (sticky \/ BOdd(q))) THEN BAdd(q, <<1>>) ELSE q,
          e)

FRoundCut(neg, n, e, sticky, sh, q) ==
    FRoundUp(neg, q, e + sh, BCmp(BSub(n, BShl(q, sh)), BShl(<<1>>, sh - 1)), sticky)

FRoundLen(neg, n, e, sticky, L) ==
    IF L <= MantBits
    THEN [neg |-> neg, m |-> BShl(n, MantBits - L), e |-> e - (MantBits - L)]
    ELSE FRoundCut(neg, n, e, sticky, L - MantBits, BShr(n, L - MantBits))

FRound(neg, n, e, sticky) ==
    IF n = <<>> THEN FZero ELSE FRoundLen(neg, n, e, sticky, BBitLen(n))

\* float(n) for an int n >= 0
FromNat(n) == FRound(FALSE, BFromNat(n), 0, FALSE)

FNeg(x) == IF IsZero(x) THEN x ELSE [x EXCEPT !.neg = ~x.neg]

\* x * y
FMul(x, y) ==
    IF IsZero(x) \/ IsZero(y) THEN FZero
    ELSE FRound(x.neg # y.neg, BMul(x.m, y.m), x.e + y.e, FALSE)

\* x + y
\* nx * 2^e and ny * 2^e are the two magnitudes on a common exponent
FAddDiff(xneg, nx, ny, e, c) ==
    IF c = 0 THEN FZero
    ELSE IF c > 0 THEN FRound(xneg, BSub(nx, ny), e, FALSE)
    ELSE FRound(~xneg, BSub(ny, nx), e, FALSE)

FAddAligned(xneg, yneg, nx, ny, e) ==
    IF xneg = yneg THEN FRound(xneg, BAdd(nx, ny), e, FALSE)
    ELSE FAddDiff(xneg, nx, ny, e, BCmp(nx, ny))

MinExp(x, y) == IF x.e < y.e THEN x.e ELSE y.e

FAdd(x, y) ==
    IF IsZero(x) THEN y
    ELSE IF IsZero(y) THEN x
    ELSE FAddAligned(x.neg, y.neg, BShl(x.m, x.e - MinExp(x, y)),
                     BShl(y.m, y.e - MinExp(x, y)), MinExp(x, y))

\* x - y
FSub(x, y) == FAdd(x, FNeg(y))

\* x / d for the float (or int) d, a whole number 0 < d < 2^15
FDivRound(neg, qr, e) == FRound(neg, qr.q, e, qr.r # 0)

FDivNat(x, d) ==
    IF IsZero(x) THEN FZero
    ELSE FDivRound(x.neg, BDivSmall(BShl(x.m, 2 * LimbBits), d), x.e - 2 * LimbBits)

\* Long division by d, whose top limb is at least LimbBase / 2, from the
\* top limb of a down: cur is the running remainder with the next limb
\* brought down, and its quotient digit is guessed from the top limbs and
\* lowered until digit * d fits.
RECURSIVE BDivFix(_, _, _)
BDivFix(cur, d, digit) ==
    IF BCmp(BMulSmall(d, digit), cur) > 0 THEN BDivFix(cur, d, digit - 1) ELSE digit

BDivGuess(cur, d) ==
    (IF Len(cur) > Len(d) THEN cur[Len(cur)] * LimbBase + cur[Len(cur) - 1]
     ELSE cur[Len(cur)]) \div d[Len(d)]

BDivDigit(cur, d) ==
    IF BCmp(cur, d) < 0 THEN 0
    ELSE IF BDivGuess(cur, d) >= LimbBase THEN BDivFix(cur, d, LimbBase - 1)
    ELSE BDivFix(cur, d, BDivGuess(cur, d))

RECURSIVE BDivLimbs(_, _, _, _, _)
BDivPut(a, d, i, cur, q, digit) ==
    BDivLimbs(a, d, i - 1, BSub(cur, BMulSmall(d, digit)), <<digit>> \o q)

BDivBring(a, d, i, cur, q) == BDivPut(a, d, i, cur, q, BDivDigit(cur, d))

BDivLimbs(a, d, i, r, q) ==
    IF i = 0 THEN [q |-> BNorm(q), r |-> IF r = <<>> THEN 0 ELSE 1]
    ELSE BDivBring(a, d, i, BNorm(<<a[i]>> \o r), q)

\* x / y for floats, y not zero (Python raises ZeroDivisionError): the
\* significands are shifted so that the divisor fills its limbs and the
\* quotient has two bits more than a significand
NormShift == 4 * LimbBits - MantBits

FDivBig(neg, n, d, e) == FDivRound(neg, BDivLimbs(n, d, Len(n), <<>>, <<>>), e)

FDiv(x, y) ==
    IF IsZero(x) THEN FZero
    ELSE FDivBig(x.neg # y.neg, BShl(x.m, MantBits + 2 + NormShift),
                 BShl(y.m, NormShift), x.e - y.e - (MantBits + 2))

\* x < y
FLessMag(neg, c) == IF neg THEN c > 0 ELSE c < 0

FLess(x, y) ==
    IF IsZero(x) THEN (~IsZero(y) /\ ~y.neg)
    ELSE IF IsZero(y) THEN x.neg
    ELSE IF x.neg # y.neg THEN x.neg
    ELSE FLessMag(x.neg, BCmp(BShl(x.m, x.e - MinExp(x, y)),
                              BShl(y.m, y.e - MinExp(x, y))))

\* numpy.rint: the nearest whole number, ties to even
FRintUp(neg, q, c) ==
    FRound(neg, IF c > 0 \/ (c = 0 /\ BOdd(q)) THEN BAdd(q, <<1>>) ELSE q, 0, FALSE)

FRintCut(neg, m, sh, q) ==
    FRintUp(neg, q, BCmp(BSub(m, BShl(q, sh)), BShl(<<1>>, sh - 1)))

FRint(x) ==
    IF IsZero(x) \/ x.e >= 0 THEN x
    ELSE IF -x.e > MantBits THEN FZero
    ELSE FRintCut(x.neg, x.m, -x.e, BShr(x.m, -x.e))

\* round2 keeping one decimal only (the fault C16 must notice)
round2_one_decimal(x) == FDivNat(FRint(FMul(x, FromNat(10))), 10)

\* Series.round(2): numpy multiplies by 10**2, rounds to a whole number and
\* divides by 10**2
round2(x) == FDivNat(FRint(FMul(x, FromNat(100))), 100)

\* The float a decimal literal num/den denotes: the nearest float to the quotient
Dec(num, den) == FDivNat(FromNat(num), den)

\* sum(values): Python starts from 0 and adds the items from left to right
RECURSIVE FSumFrom(_, _, _)
FSumFrom(values, i, acc) ==
    IF i > Len(values) THEN acc ELSE FSumFrom(values, i + 1, FAdd(acc, values[i]))

sum(values) == FSumFrom(values, 1, FZero)

\* f"{x:.2f}": the decimal number with two digits after the point nearest
\* to x (ties to the even digit), kept as its sign and its count of
\* hundredths
NiceUp(q, c) == IF c > 0 \/ (c = 0 /\ BOdd(q)) THEN BAdd(q, <<1>>) ELSE q

NiceCut(n, sh, q) == NiceUp(q, BCmp(BSub(n, BShl(q, sh)), BShl(<<1>>, sh - 1)))

NiceScaled(n, e) == IF e >= 0 THEN BShl(n, e) ELSE NiceCut(n, -e, BShr(n, -e))

nice_number(x) ==
    [neg |-> x.neg,
     hundredths |-> IF IsZero(x) THEN <<>> ELSE NiceScaled(BMulSmall(x.m, 100), x.e)]

\* max0 without the clamp at zero (the fault C1 must notice)
max0_unclamped(x) == x

\* max(0.0, x): Python keeps the first argument unless the second is greater
max0(x) == IF FLess(FZero, x) THEN x ELSE FZero

(***************************************************************************)
(* Strings are sequences of characters, so that str.lower() is computed.   *)
(***************************************************************************)
UpperChars == <<"A", "B", "C", "D", "E", "F", "G", "H", "I", "J", "K", "L", "M",
                "N", "O", "P", "Q", "R", "S", "T", "U", "V", "W", "X", "Y", "Z">>
LowerChars == <<"a", "b", "c", "d", "e", "f", "g", "h", "i", "j", "k", "l", "m",
                "n", "o", "p", "q", "r", "s", "t", "u", "v", "w", "x", "y", "z">>

\* lower_char that leaves capitals alone (the fault C2 must notice)
lower_char_identity(c) == c

lower_char(c) ==
    IF \E i \in 1..Len(UpperChars) : UpperChars[i] = c
    THEN LowerChars[CHOOSE i \in 1..Len(UpperChars) : UpperChars[i] = c]
    ELSE c

RECURSIVE lower(_)
lower(s) == IF s = <<>> THEN <<>> ELSE <<lower_char(Head(s))>> \o lower(Tail(s))

(***************************************************************************)
(* Emission factors.                                                       *)
(***************************************************************************)
FERT_EF_N2O_N == Dec(1, 100)
N2O_TO_N2O_RATIO == FDivNat(FromNat(44), 28)
N2O_GWP == FromNat(265)
ELECTRICITY_EF_KG_PER_KWH == Dec(716, 1000)
DIESEL_EF_KG_PER_L == Dec(268, 100)
PETROL_EF_KG_PER_L == Dec(227, 100)
RICE_AREA_EF_KG_PER_HA == FromNat(7870)
RICE_YIELD_EF_KG_PER_KG == Dec(9, 10)
STEEL_EF_T_PER_TONNE == Dec(255, 100)
LIVESTOCK_EF_KG_PER_HEAD_PER_YEAR == Dec(9125, 10)

(***************************************************************************)
(* Core calculation functions.                                             *)
(***************************************************************************)
\* compute_fertilizer_emissions without the molecular-weight step (the fault
\* C7 must notice)
compute_fertilizer_emissions_no_ratio(n_kg) ==
    FMul(FMul(n_kg, FERT_EF_N2O_N), N2O_GWP)

compute_fertilizer_emissions(n_kg) ==
    LET n2o_n_emissions == FMul(n_kg, FERT_EF_N2O_N)
        n2o_emissions   == FMul(n2o_n_emissions, N2O_TO_N2O_RATIO)
        co2e_emissions  == FMul(n2o_emissions, N2O_GWP)
    IN  co2e_emissions

fertilizer_emission_factor_kg_per_kgN ==
    FMul(FMul(FERT_EF_N2O_N, N2O_TO_N2O_RATIO), N2O_GWP)

\* compute_electricity_emissions with the diesel factor (the fault C9 must notice)
compute_electricity_emissions_diesel_factor(kwh) == FMul(kwh, DIESEL_EF_KG_PER_L)

compute_electricity_emissions(kwh) == FMul(kwh, ELECTRICITY_EF_KG_PER_KWH)

compute_fuel_emissions(litres, fuel_type) ==
    LET factor == IF lower(fuel_type) = <<"d", "i", "e", "s", "e", "l">>
                  THEN DIESEL_EF_KG_PER_L
                  ELSE PETROL_EF_KG_PER_L
    IN  FMul(litres, factor)

\* compute_rice_emissions without the halving (the fault C3 must notice)
compute_rice_emissions_unhalved(area_ha, yield_tonnes) ==
    FAdd(FMul(area_ha, RICE_AREA_EF_KG_PER_HA),
         FMul(FMul(yield_tonnes, FromNat(1000)), RICE_YIELD_EF_KG_PER_KG))

\* compute_rice_emissions taking the difference of the two estimates (the
\* fault C5 must notice)
compute_rice_emissions_difference(area_ha, yield_tonnes) ==
    FDivNat(FSub(FMul(area_ha, RICE_AREA_EF_KG_PER_HA),
                 FMul(FMul(yield_tonnes, FromNat(1000)), RICE_YIELD_EF_KG_PER_KG)), 2)

compute_rice_emissions(area_ha, yield_tonnes) ==
    LET area_emissions  == FMul(area_ha, RICE_AREA_EF_KG_PER_HA)
        yield_emissions == FMul(FMul(yield_tonnes, FromNat(1000)), RICE_YIELD_EF_KG_PER_KG)
    IN  FDivNat(FAdd(area_emissions, yield_emissions), 2)

\* compute_steel_emissions left in tonnes (the fault C8 must notice)
compute_steel_emissions_in_tonnes(tonnes) == FMul(tonnes, STEEL_EF_T_PER_TONNE)

compute_steel_emissions(tonnes) ==
    LET emissions_tonnes == FMul(tonnes, STEEL_EF_T_PER_TONNE)
    IN  FMul(emissions_tonnes, FromNat(1000))

\* headcount is an int; int * float converts it to float first
compute_livestock_emissions(headcount) ==
    FMul(IF headcount >= 0 THEN FromNat(headcount) ELSE FNeg(FromNat(-headcount)),
         LIVESTOCK_EF_KG_PER_HEAD_PER_YEAR)

\* kg_to_tonnes dividing by 100 (the fault C4 must notice)
kg_to_tonnes_by_100(kg) == FDivNat(kg, 100)

kg_to_tonnes(kg) == FDivNat(kg, 1000)

(***************************************************************************)
(* The Streamlit script.  Every user interaction runs main() from the top; *)
(* pc is the position of the current run.                                  *)
(***************************************************************************)
VARIABLES
    pc,                   \* "form", "calc", "pdf", "download", "done"
    sector,               \* the sidebar selectbox
    submitted,            \* st.form_submit_button
    typed,                \* what the user entered in the form's fields
    baseline_tco2e,       \* form widgets
    inputs_dict,
    em_values_kg,         \* locals of main after submit
    total_em_kg,
    total_em_t,
    potential_credits_t,
    df_breakdown,
    pdf_bytes,            \* what the reporting section put in the document
    download,             \* the download button is shown
    call,                 \* a direct call of one calculator function
    remembered            \* history: an earlier submission and its report

vars == <<pc, sector, submitted, typed, baseline_tco2e, inputs_dict, em_values_kg,
          total_em_kg, total_em_t, potential_credits_t, df_breakdown,
          pdf_bytes, download, call, remembered, typed>>

Agriculture == "Agriculture / Farmer"
Alloy == "Alloy / Steel Producer"
Sectors == {Agriculture, Alloy}

\* a local that the current run has not assigned
Unset == [unset |-> TRUE]
NoCall == [fn |-> "none"]

(***************************************************************************)
(* What the user may enter.  The quantities are multiples of a unit, up    *)
(* to MaxUnits units, and a few fixed values; st.number_input(min_value=0) *)
(* does not take an entry below zero.                                      *)
(***************************************************************************)
MaxUnits == 1

Units == 0..MaxUnits

BaselineValues == {FZero, FromNat(4), FromNat(30)}

AgriInputs ==
    { [area_ha |-> a, crop_type |-> c, rice_yield_t |-> y, livestock_count |-> 5 * h,
       fert_n_kg |-> FromNat(100 * f), diesel_l |-> FromNat(50 * d),
       petrol_l |-> p, elec_kwh |-> k] :
          a \in {FZero, FromNat(2)},
          c \in {"General", "Rice"},
          y \in {FZero, Dec(15, 10)},
          h \in Units, f \in Units, d \in Units,
          p \in {FZero, Dec(59032, 1000)},
          k \in {FZero, FromNat(200)} }

AlloyInputs ==
    { [steel_prod_t |-> FromNat(10 * s), elec_kwh_alloy |-> k,
       diesel_l_alloy |-> FromNat(227 * d), petrol_l_alloy |-> p] :
          s \in Units, d \in Units,
          k \in {FZero, FromNat(89), FromNat(1000)},
          p \in {FZero, FromNat(268)} }

\* Further entries: a quantity below the minimum, which the widget does not
\* take (a baseline below zero is tried with the scenario inputs), a rice
\* yield left over in a form whose crop is not rice, a very small
\* quantity, and quantities with fractions.
BaselineTyped == BaselineValues \cup {FNeg(FromNat(4))}

AgriScenarioTyped ==
    [area_ha |-> FromNat(2), crop_type |-> "General", rice_yield_t |-> FZero,
     livestock_count |-> 5, fert_n_kg |-> FromNat(100), diesel_l |-> FromNat(50),
     petrol_l |-> FZero, elec_kwh |-> FromNat(200)]

\* one kWh of electricity and nothing else
SmallElectricityTyped ==
    [area_ha |-> FZero, crop_type |-> "General", rice_yield_t |-> FZero,
     livestock_count |-> 0, fert_n_kg |-> FZero, diesel_l |-> FZero,
     petrol_l |-> FZero, elec_kwh |-> FromNat(1)]

\* quantities whose emissions lie halfway between two hundredths of a kg
AgriHalfCentsTyped ==
    [area_ha |-> Dec(7, 1000), crop_type |-> "Rice", rice_yield_t |-> FZero,
     livestock_count |-> 0, fert_n_kg |-> Dec(49, 10), diesel_l |-> Dec(125, 1000),
     petrol_l |-> Dec(15, 10), elec_kwh |-> Dec(125, 100)]

AlloyHalfCentsTyped ==
    [steel_prod_t |-> FZero, elec_kwh_alloy |-> Dec(125, 100),
     diesel_l_alloy |-> Dec(125, 1000), petrol_l_alloy |-> Dec(15, 10)]

AgriTyped ==
    { i \in AgriInputs : i.crop_type # "Rice" => i.rice_yield_t = FZero }
    \cup { [AgriScenarioTyped EXCEPT !.area_ha = FNeg(FromNat(2))],
           [AgriScenarioTyped EXCEPT !.rice_yield_t = Dec(15, 10)],
           [AgriScenarioTyped EXCEPT !.crop_type = "Rice", !.rice_yield_t = FNeg(Dec(15, 10))],
           [AgriScenarioTyped EXCEPT !.livestock_count = -5],
           [AgriScenarioTyped EXCEPT !.fert_n_kg = FNeg(FromNat(100))],
           [AgriScenarioTyped EXCEPT !.diesel_l = FNeg(FromNat(50))],
           [AgriScenarioTyped EXCEPT !.petrol_l = FNeg(Dec(59032, 1000))],
           [AgriScenarioTyped EXCEPT !.elec_kwh = FNeg(FromNat(200))],
           SmallElectricityTyped, AgriHalfCentsTyped }

AlloyScenarioTyped ==
    [steel_prod_t |-> FromNat(10), elec_kwh_alloy |-> FromNat(1000),
     diesel_l_alloy |-> FromNat(227), petrol_l_alloy |-> FromNat(268)]

AlloyTyped ==
    AlloyInputs
    \cup { [AlloyScenarioTyped EXCEPT !.steel_prod_t = FNeg(FromNat(10))],
           [AlloyScenarioTyped EXCEPT !.elec_kwh_alloy = FNeg(FromNat(1000))],
           [AlloyScenarioTyped EXCEPT !.diesel_l_alloy = FNeg(FromNat(227))],
           [AlloyScenarioTyped EXCEPT !.petrol_l_alloy = FNeg(FromNat(268))],
           AlloyHalfCentsTyped }

\* number_input returning whatever was entered (the fault C14 must notice)
number_input_unchecked(min_value, value, entered) == entered

\* st.number_input(min_value=..., value=...): the field does not take an
\* entry below min_value and keeps its value
number_input(min_value, value, entered) ==
    IF FLess(entered, min_value) THEN value ELSE entered

\* st.number_input(min_value=0, step=1, value=0), a whole number
number_input_int(min_value, value, entered) ==
    IF entered < min_value THEN value ELSE entered

\* the agriculture fields of the form; the rice yield field exists for
\* crop "Rice" only, rice_yield_t is 0.0 otherwise
agri_form(t) ==
    [area_ha         |-> number_input(FZero, FZero, t.area_ha),
     crop_type       |-> t.crop_type,
     rice_yield_t    |-> IF t.crop_type = "Rice"
                         THEN number_input(FZero, FZero, t.rice_yield_t) ELSE FZero,
     livestock_count |-> number_input_int(0, 0, t.livestock_count),
     fert_n_kg       |-> number_input(FZero, FZero, t.fert_n_kg),
     diesel_l        |-> number_input(FZero, FZero, t.diesel_l),
     petrol_l        |-> number_input(FZero, FZero, t.petrol_l),
     elec_kwh        |-> number_input(FZero, FZero, t.elec_kwh)]

\* the alloy fields of the form
alloy_form(t) ==
    [steel_prod_t   |-> number_input(FZero, FZero, t.steel_prod_t),
     elec_kwh_alloy |-> number_input(FZero, FZero, t.elec_kwh_alloy),
     diesel_l_alloy |-> number_input(FZero, FZero, t.diesel_l_alloy),
     petrol_l_alloy |-> number_input(FZero, FZero, t.petrol_l_alloy)]

Diesel == <<"D", "i", "e", "s", "e", "l">>
Petrol == <<"P", "e", "t", "r", "o", "l">>

Row(source, emissions) == [Source |-> source, Emissions |-> emissions]

\* df["Emissions (kg CO2e/year)"].round(2)
RoundColumn(df) == [i \in 1..Len(df) |-> Row(df[i].Source, round2(df[i].Emissions))]

\* idxmax keeping the last of the largest rows (the fault C6 must notice)
idxmax_last(df) ==
    CHOOSE i \in 1..Len(df) :
        /\ \A j \in 1..Len(df) : ~FLess(df[i].Emissions, df[j].Emissions)
        /\ \A j \in (i + 1)..Len(df) : FLess(df[j].Emissions, df[i].Emissions)

\* Series.idxmax(): the first row holding the largest value
idxmax(df) ==
    CHOOSE i \in 1..Len(df) :
        /\ \A j \in 1..Len(df) : ~FLess(df[i].Emissions, df[j].Emissions)
        /\ \A j \in 1..(i - 1) : FLess(df[j].Emissions, df[i].Emissions)

\* potential_credits against a running total that an earlier submission
\* left behind (the fault C11 must notice)
potential_credits_carried(baseline, total_t) ==
    IF FLess(FZero, baseline)
    THEN max0(FSub(baseline, IF remembered = Unset THEN total_t
                             ELSE FAdd(total_t, remembered.total_em_t)))
    ELSE FZero

\* potential_credits adding the total to the baseline (the fault C17 must
\* notice)
potential_credits_added(baseline, total_t) ==
    IF FLess(FZero, baseline) THEN max0(FAdd(baseline, total_t)) ELSE FZero

\* max(0.0, baseline_tco2e - total_em_t) if baseline_tco2e > 0 else 0.0
potential_credits(baseline, total_t) ==
    IF FLess(FZero, baseline) THEN max0(FSub(baseline, total_t)) ELSE FZero

\* agri_em_values computing the rice entry whatever the crop (the fault C10
\* must notice)
agri_em_values_rice_always(i) ==
    << compute_fertilizer_emissions(i.fert_n_kg),
       compute_fuel_emissions(i.diesel_l, Diesel),
       compute_fuel_emissions(i.petrol_l, Petrol),
       compute_electricity_emissions(i.elec_kwh),
       compute_rice_emissions(i.area_ha, i.rice_yield_t),
       compute_livestock_emissions(i.livestock_count) >>

\* fert_em, diesel_em, petrol_em, elec_em, rice_em, livestock_em
agri_em_values(i) ==
    << compute_fertilizer_emissions(i.fert_n_kg),
       compute_fuel_emissions(i.diesel_l, Diesel),
       compute_fuel_emissions(i.petrol_l, Petrol),
       compute_electricity_emissions(i.elec_kwh),
       IF i.crop_type = "Rice"
       THEN compute_rice_emissions(i.area_ha, i.rice_yield_t)
       ELSE FZero,
       compute_livestock_emissions(i.livestock_count) >>

agri_data_rows(values) ==
    << Row("Synthetic nitrogen fertilizer", values[1]),
       Row("Diesel", values[2]),
       Row("Petrol", values[3]),
       Row("Electricity (grid)", values[4]),
       Row("Rice paddies", values[5]),
       Row("Livestock (enteric methane)", values[6]) >>

\* steel_em_kg, elec_em_kg, diesel_em_kg, petrol_em_kg
alloy_em_values(i) ==
    << compute_steel_emissions(i.steel_prod_t),
       compute_electricity_emissions(i.elec_kwh_alloy),
       compute_fuel_emissions(i.diesel_l_alloy, Diesel),
       compute_fuel_emissions(i.petrol_l_alloy, Petrol) >>

alloy_data_rows(values) ==
    << Row("Steel production", values[1]),
       Row("Electricity (grid)", values[2]),
       Row("Diesel", values[3]),
       Row("Petrol", values[4]) >>

Init ==
    /\ pc = "form"
    /\ sector = Agriculture
    /\ submitted = FALSE
    /\ typed = Unset
    /\ baseline_tco2e = FZero
    /\ inputs_dict = Unset
    /\ em_values_kg = Unset
    /\ total_em_kg = Unset
    /\ total_em_t = Unset
    /\ potential_credits_t = Unset
    /\ df_breakdown = Unset
    /\ pdf_bytes = Unset
    /\ download = FALSE
    /\ call = NoCall
    /\ remembered = Unset

\* A run of main starts: nothing of the previous run is left.
FreshRun ==
    /\ em_values_kg' = Unset
    /\ total_em_kg' = Unset
    /\ total_em_t' = Unset
    /\ potential_credits_t' = Unset
    /\ df_breakdown' = Unset
    /\ pdf_bytes' = Unset
    /\ download' = FALSE

\* The user changes the sidebar: main runs, the submit button was not
\* pressed, and main returns after drawing the form.
Rerun ==
    /\ pc \in {"form", "done"}
    /\ \E s \in Sectors : sector' = s
    /\ submitted' = FALSE
    /\ typed' = Unset
    /\ baseline_tco2e' = FZero
    /\ inputs_dict' = Unset
    /\ FreshRun
    /\ pc' = "form"
    /\ UNCHANGED <<call, remembered>>

\* The user fills the form and presses the button: main runs with the
\* widgets' values and goes on to the calculations.
Submit ==
    /\ pc \in {"form", "done"}
    /\ \E b \in BaselineTyped :
       \E i \in (IF sector = Agriculture THEN AgriTyped ELSE AlloyTyped) :
          /\ FLess(b, FZero) => i \in {AgriScenarioTyped, AlloyScenarioTyped}
          /\ typed' = [baseline_tco2e |-> b, inputs |-> i]
    /\ baseline_tco2e' = number_input(FZero, FZero, typed'.baseline_tco2e)
    /\ inputs_dict' = IF sector = Agriculture THEN agri_form(typed'.inputs)
                                               ELSE alloy_form(typed'.inputs)
    /\ submitted' = TRUE
    /\ FreshRun
    /\ pc' = "calc"
    /\ UNCHANGED <<sector, call, remembered>>

CalculateAgri ==
    /\ pc = "calc"
    /\ submitted
    /\ sector = Agriculture
    /\ em_values_kg' = agri_em_values(inputs_dict)
    /\ total_em_kg' = sum(em_values_kg')
    /\ total_em_t' = kg_to_tonnes(total_em_kg')
    /\ potential_credits_t' = potential_credits(baseline_tco2e, total_em_t')
    /\ df_breakdown' = RoundColumn(agri_data_rows(em_values_kg'))
    /\ pc' = "pdf"
    /\ UNCHANGED <<sector, submitted, baseline_tco2e, inputs_dict, pdf_bytes, download, call, remembered, typed>>

CalculateAlloy ==
    /\ pc = "calc"
    /\ submitted
    /\ sector # Agriculture
    /\ em_values_kg' = alloy_em_values(inputs_dict)
    /\ total_em_kg' = sum(em_values_kg')
    /\ total_em_t' = kg_to_tonnes(total_em_kg')
    /\ potential_credits_t' = potential_credits(baseline_tco2e, total_em_t')
    /\ df_breakdown' = RoundColumn(alloy_data_rows(em_values_kg'))
    /\ pc' = "pdf"
    /\ UNCHANGED <<sector, submitted, baseline_tco2e, inputs_dict, pdf_bytes, download, call, remembered, typed>>

\* Section B of the document: the baseline paragraph, the breakdown table
\* (its column rounded once more) and the sentence naming the largest
\* contributor.
\* (dominant_value / total_em_kg * 100) if total_em_kg > 0 else 0.0
share_pct(dominant_value, total_kg) ==
    IF FLess(FZero, total_kg)
    THEN FMul(FDiv(dominant_value, total_kg), FromNat(100))
    ELSE FZero

\* SectionB taking a baseline of zero for a baseline (the fault C13 must
\* notice)
SectionB_baseline_from_zero(total_kg, baseline_t, credits_t, df_display, top) ==
    [ baseline_shown  |-> ~FLess(baseline_t, FZero),
      credits_shown   |-> IF ~FLess(baseline_t, FZero) THEN credits_t ELSE Unset,
      table           |-> df_display,
      dominant_source |-> df_display[top].Source,
      dominant_value  |-> df_display[top].Emissions,
      share_pct       |-> share_pct(df_display[top].Emissions, total_kg) ]

SectionB(total_kg, baseline_t, credits_t, df_display, top) ==
    [ baseline_shown  |-> FLess(FZero, baseline_t),
      credits_shown   |-> IF FLess(FZero, baseline_t) THEN credits_t ELSE Unset,
      table           |-> df_display,
      dominant_source |-> df_display[top].Source,
      dominant_value  |-> df_display[top].Emissions,
      share_pct       |-> share_pct(df_display[top].Emissions, total_kg) ]

SectionBTable(total_kg, baseline_t, credits_t, df_display) ==
    SectionB(total_kg, baseline_t, credits_t, df_display, idxmax(df_display))

mrv_section_B_reporting(total_kg, baseline_t, credits_t, df) ==
    SectionBTable(total_kg, baseline_t, credits_t, RoundColumn(df))

\* create_mrv_pdf_agri / create_mrv_pdf_alloy
CreatePdf ==
    /\ pc = "pdf"
    /\ pdf_bytes' = mrv_section_B_reporting(total_em_kg, baseline_tco2e,
                                            potential_credits_t, df_breakdown)
    /\ pc' = "download"
    /\ UNCHANGED <<sector, submitted, baseline_tco2e, inputs_dict, em_values_kg,
                   total_em_kg, total_em_t, potential_credits_t, df_breakdown,
                   download, call, remembered, typed>>

\* the download button drawn before the document is built (the fault C12
\* must notice)
Download_before_pdf ==
    /\ pc = "pdf"
    /\ download' = TRUE
    /\ pc' = "done"
    /\ UNCHANGED <<sector, submitted, baseline_tco2e, inputs_dict, em_values_kg,
                   total_em_kg, total_em_t, potential_credits_t, df_breakdown,
                   pdf_bytes, call, remembered, typed>>

\* st.download_button
Download ==
    /\ pc = "download"
    /\ download' = TRUE
    /\ pc' = "done"
    /\ UNCHANGED <<sector, submitted, baseline_tco2e, inputs_dict, em_values_kg,
                   total_em_kg, total_em_t, potential_credits_t, df_breakdown,
                   pdf_bytes, call, remembered, typed>>

Next == Rerun \/ Submit \/ CalculateAgri \/ CalculateAlloy \/ CreatePdf \/ Download

Spec == Init /\ [][Next]_vars

(***************************************************************************)
(* The calculator functions called on their own, on arguments main never   *)
(* passes as well: negative quantities and arbitrary fuel-type strings.    *)
(***************************************************************************)
MaxArg == 12

\* 0, 0.5, 1, ..., MaxArg / 2 and two negative quantities
FnQuantities ==
    {Dec(k, 2) : k \in 0..MaxArg} \cup {FNeg(Dec(1, 2)), FNeg(FromNat(3))}

FnHeadcounts == (-2)..MaxArg

FuelTypes ==
    { <<"d", "i", "e", "s", "e", "l">>,
      Diesel,
      <<"D", "I", "E", "S", "E", "L">>,
      <<"d", "I", "e", "S", "e", "L">>,
      Petrol,
      <<"p", "e", "t", "r", "o", "l">>,
      <<>>,
      <<"d", "i", "s", "e", "l">>,
      <<" ", "d", "i", "e", "s", "e", "l">>,
      <<"D", "i", "e", "s", "e", "l", " ">>,
      <<"d", "i", "e", "s", "e", "l", "s">>,
      <<"k", "e", "r", "o", "s", "e", "n", "e">> }

Called(fn, args, ret) ==
    /\ call' = [fn |-> fn, args |-> args, ret |-> ret]
    /\ UNCHANGED <<pc, sector, submitted, baseline_tco2e, inputs_dict, em_values_kg,
                   total_em_kg, total_em_t, potential_credits_t, df_breakdown,
                   pdf_bytes, download, remembered, typed>>

CallFertilizer ==
    \E n_kg \in FnQuantities :
        Called("compute_fertilizer_emissions", <<n_kg>>, compute_fertilizer_emissions(n_kg))

CallFertilizerFactor ==
    Called("fertilizer_emission_factor_kg_per_kgN", <<>>, fertilizer_emission_factor_kg_per_kgN)

CallElectricity ==
    \E kwh \in FnQuantities :
        Called("compute_electricity_emissions", <<kwh>>, compute_electricity_emissions(kwh))

CallFuel ==
    \E litres \in FnQuantities, fuel_type \in FuelTypes :
        Called("compute_fuel_emissions", <<litres, fuel_type>>,
               compute_fuel_emissions(litres, fuel_type))

CallRice ==
    \E area_ha \in FnQuantities, yield_tonnes \in FnQuantities :
        Called("compute_rice_emissions", <<area_ha, yield_tonnes>>,
               compute_rice_emissions(area_ha, yield_tonnes))

CallSteel ==
    \E tonnes \in FnQuantities :
        Called("compute_steel_emissions", <<tonnes>>, compute_steel_emissions(tonnes))

CallLivestock ==
    \E headcount \in FnHeadcounts :
        Called("compute_livestock_emissions", <<headcount>>,
               compute_livestock_emissions(headcount))

CallKgToTonnes ==
    \E kg \in FnQuantities : Called("kg_to_tonnes", <<kg>>, kg_to_tonnes(kg))

NextFn ==
    \/ CallFertilizer
    \/ CallFertilizerFactor
    \/ CallElectricity
    \/ CallFuel
    \/ CallRice
    \/ CallSteel
    \/ CallLivestock
    \/ CallKgToTonnes

SpecFn == Init /\ [][NextFn]_vars

(***************************************************************************)
(* A session with a history: the report of one processed submission is     *)
(* kept aside while the user goes on submitting, so that a later           *)
(* submission of the same sector, inputs and baseline can be compared      *)
(* with it.  The submissions are drawn from a few fixed ones of both       *)
(* sectors, without and with a baseline.                                   *)
(***************************************************************************)
AgriAllTyped ==
    [area_ha |-> FromNat(2), crop_type |-> "Rice", rice_yield_t |-> Dec(15, 10),
     livestock_count |-> 5, fert_n_kg |-> FromNat(100), diesel_l |-> FromNat(50),
     petrol_l |-> Dec(59032, 1000), elec_kwh |-> FromNat(200)]

\* the two scenarios, submissions with every source, and each of these
\* with one quantity left at zero
ProbeInputs ==
    { AgriScenarioTyped,
      [AgriScenarioTyped EXCEPT !.area_ha = FZero],
      [AgriScenarioTyped EXCEPT !.fert_n_kg = FZero],
      [area_ha |-> FromNat(2), crop_type |-> "Rice", rice_yield_t |-> Dec(15, 10),
       livestock_count |-> 0, fert_n_kg |-> FZero, diesel_l |-> FZero,
       petrol_l |-> Dec(59032, 1000), elec_kwh |-> FZero],
      AgriAllTyped,
      [AgriAllTyped EXCEPT !.area_ha = FZero],
      [AgriAllTyped EXCEPT !.rice_yield_t = FZero],
      [AgriAllTyped EXCEPT !.livestock_count = 0],
      [AgriAllTyped EXCEPT !.fert_n_kg = FZero],
      [AgriAllTyped EXCEPT !.diesel_l = FZero],
      [AgriAllTyped EXCEPT !.petrol_l = FZero],
      [AgriAllTyped EXCEPT !.elec_kwh = FZero],
      [steel_prod_t |-> FromNat(10), elec_kwh_alloy |-> FromNat(1000),
       diesel_l_alloy |-> FZero, petrol_l_alloy |-> FZero],
      [steel_prod_t |-> FZero, elec_kwh_alloy |-> FromNat(89),
       diesel_l_alloy |-> FromNat(227), petrol_l_alloy |-> FromNat(268)],
      AlloyScenarioTyped,
      [AlloyScenarioTyped EXCEPT !.steel_prod_t = FZero],
      [AlloyScenarioTyped EXCEPT !.elec_kwh_alloy = FZero],
      [AlloyScenarioTyped EXCEPT !.diesel_l_alloy = FZero],
      [AlloyScenarioTyped EXCEPT !.petrol_l_alloy = FZero] }

ProbeBaselines == {FZero, FromNat(30)}

SubmitProbe ==
    /\ Submit
    /\ typed'.inputs \in ProbeInputs
    /\ typed'.baseline_tco2e \in ProbeBaselines

\* The finished run's submission and report are kept aside.
Remember ==
    /\ pc = "done"
    /\ remembered' = [ sector |-> sector,
                       inputs_dict |-> inputs_dict,
                       baseline_tco2e |-> baseline_tco2e,
                       em_values_kg |-> em_values_kg,
                       total_em_kg |-> total_em_kg,
                       total_em_t |-> total_em_t,
                       potential_credits_t |-> potential_credits_t,
                       dominant_source |-> pdf_bytes.dominant_source ]
    /\ remembered' # remembered
    /\ UNCHANGED <<pc, sector, submitted, baseline_tco2e, inputs_dict, em_values_kg,
                   total_em_kg, total_em_t, potential_credits_t, df_breakdown,
                   pdf_bytes, download, call, typed>>

NextHist ==
    \/ Rerun
    \/ SubmitProbe
    \/ CalculateAgri
    \/ CalculateAlloy
    \/ CreatePdf
    \/ Download
    \/ Remember

SpecHist == Init /\ [][NextHist]_vars

(***************************************************************************)
(* Properties.                                                             *)
(***************************************************************************)
\* main has computed the entries and the totals of the current run
Calculated == pc \in {"pdf", "download", "done"}

FLeq(x, y) == ~FLess(y, x)
NonNegative(x) == ~FLess(x, FZero)
Positive(x) == FLess(FZero, x)

\* C1: in both branches of main the potential credits are
\* max(0, baseline - total tonnes) when the baseline is above 0 and 0 when
\* the baseline is 0, and are never negative; baseline 10 with total 4
\* gives 6, baseline 4 with total 10 gives 0.
C1_PotentialCredits ==
    /\ Calculated =>
          /\ (Positive(baseline_tco2e) /\ FLess(total_em_t, baseline_tco2e))
                => potential_credits_t = FSub(baseline_tco2e, total_em_t)
          /\ (Positive(baseline_tco2e) /\ FLeq(baseline_tco2e, total_em_t))
                => potential_credits_t = FZero
          /\ baseline_tco2e = FZero => potential_credits_t = FZero
          /\ NonNegative(potential_credits_t)
    /\ potential_credits(FromNat(10), FromNat(4)) = FromNat(6)
    /\ potential_credits(FromNat(4), FromNat(10)) = FZero
    /\ potential_credits(FZero, FromNat(4)) = FZero

\* a report whose total lies above its positive baseline, so that the clamp acts
C1_Witness ==
    /\ Calculated
    /\ Positive(baseline_tco2e)
    /\ FLess(baseline_tco2e, total_em_t)
    /\ potential_credits_t = FZero

IsDieselIgnoringCase(s) ==
    /\ Len(s) = 6
    /\ s[1] \in {"d", "D"}
    /\ s[2] \in {"i", "I"}
    /\ s[3] \in {"e", "E"}
    /\ s[4] \in {"s", "S"}
    /\ s[5] \in {"e", "E"}
    /\ s[6] \in {"l", "L"}

\* C2: compute_fuel_emissions(litres, fuel_type) is litres * 2.68 exactly
\* when fuel_type is "diesel" in any letter case, and litres * 2.27 for
\* every other string (petrol, empty, misspelt, padded with blanks).
C2_FuelFactor ==
    call.fn = "compute_fuel_emissions" =>
        call.ret = FMul(call.args[1],
                        IF IsDieselIgnoringCase(call.args[2])
                        THEN Dec(268, 100) ELSE Dec(227, 100))

\* a mixed-case "dIeSeL" that got the diesel factor on a positive quantity
C2_Witness ==
    /\ call.fn = "compute_fuel_emissions"
    /\ call.args[2] = <<"d", "I", "e", "S", "e", "L">>
    /\ Positive(call.args[1])
    /\ call.ret = FMul(call.args[1], Dec(268, 100))

\* the agriculture total and credits for the form values i
AgriTotalKg(i) == sum(agri_em_values(i))
AgriCredits(i, baseline) == potential_credits(baseline, kg_to_tonnes(AgriTotalKg(i)))

\* C3: the rice entry is (area * 7870 + yield * 1000 * 0.9) / 2 for the crop
\* "Rice" and exactly 0 for any other crop; for another crop the total and
\* the credits are the same whatever the area and the rice yield.
C3_RiceOnlyForRice ==
    (Calculated /\ sector = Agriculture) =>
        /\ inputs_dict.crop_type = "Rice" =>
              em_values_kg[5] =
                  FDivNat(FAdd(FMul(inputs_dict.area_ha, FromNat(7870)),
                               FMul(FMul(inputs_dict.rice_yield_t, FromNat(1000)),
                                    Dec(9, 10))), 2)
        /\ inputs_dict.crop_type # "Rice" =>
              /\ em_values_kg[5] = FZero
              /\ \A a \in {FZero, FromNat(2), Dec(75, 10)}, y \in {FZero, Dec(15, 10)} :
                    /\ AgriTotalKg([inputs_dict EXCEPT !.area_ha = a, !.rice_yield_t = y])
                          = total_em_kg
                    /\ AgriCredits([inputs_dict EXCEPT !.area_ha = a, !.rice_yield_t = y],
                                   baseline_tco2e) = potential_credits_t

\* a rice report with a positive area and yield, hence a positive rice entry
C3_Witness ==
    /\ Calculated
    /\ sector = Agriculture
    /\ inputs_dict.crop_type = "Rice"
    /\ Positive(inputs_dict.area_ha)
    /\ Positive(inputs_dict.rice_yield_t)
    /\ Positive(em_values_kg[5])

\* the items added from left to right, starting from 0
RECURSIVE LeftSum(_, _)
LeftSum(values, n) ==
    IF n = 0 THEN FZero ELSE FAdd(LeftSum(values, n - 1), values[n])

MaxExp(x, y) == IF x.e < y.e THEN y.e ELSE x.e
BAbsDiff(a, b) == IF BCmp(a, b) >= 0 THEN BSub(a, b) ELSE BSub(b, a)

\* x and y are at most k units in the last place apart (units of the one
\* with the larger exponent)
WithinUlps(x, y, k) ==
    \/ x = y
    \/ /\ ~IsZero(x)
       /\ ~IsZero(y)
       /\ x.neg = y.neg
       /\ BCmp(BAbsDiff(BShl(x.m, x.e - MinExp(x, y)), BShl(y.m, y.e - MinExp(x, y))),
               BShl(BFromNat(k), MaxExp(x, y) - MinExp(x, y))) <= 0

\* C4 as stated: the per-source results add up to the total kg, the total kg
\* divided by 1000 is the total tonnes, and the total tonnes times 1000
\* gives back the total kg.
C4_AsStated ==
    Calculated =>
        /\ total_em_kg = LeftSum(em_values_kg, Len(em_values_kg))
        /\ total_em_t = FDivNat(total_em_kg, 1000)
        /\ FMul(total_em_t, FromNat(1000)) = total_em_kg

\* C4 (amended): the unrounded per-source results, added from left to right,
\* are the total kg; the total kg divided by 1000 is the total tonnes; the
\* total tonnes times 1000 is the total kg to within one unit in the last
\* place.
C4_Aggregation ==
    Calculated =>
        /\ total_em_kg = LeftSum(em_values_kg, Len(em_values_kg))
        /\ total_em_t = FDivNat(total_em_kg, 1000)
        /\ WithinUlps(FMul(total_em_t, FromNat(1000)), total_em_kg, 1)

\* a report with several positive entries, whose sum is the total
C4_Witness ==
    /\ Calculated
    /\ sector = Alloy
    /\ Positive(em_values_kg[1])
    /\ Positive(em_values_kg[2])
    /\ Positive(em_values_kg[3])
    /\ FLess(em_values_kg[1], total_em_kg)
    /\ Positive(total_em_t)

\* every calculator, on every non-negative quantity tried, is non-negative
CalculatorsNonNegative ==
    /\ \A x \in FnQuantities :
          NonNegative(x) =>
              /\ NonNegative(compute_fertilizer_emissions(x))
              /\ NonNegative(compute_electricity_emissions(x))
              /\ \A t \in FuelTypes : NonNegative(compute_fuel_emissions(x, t))
              /\ NonNegative(compute_steel_emissions(x))
              /\ \A y \in FnQuantities :
                    NonNegative(y) => NonNegative(compute_rice_emissions(x, y))
    /\ \A h \in FnHeadcounts :
          h >= 0 => NonNegative(compute_livestock_emissions(h))

\* C5: every calculator returns a non-negative result on non-negative
\* quantities, and so every entry, the total kg and the total tonnes of a
\* report are non-negative.
C5_NonNegative ==
    /\ CalculatorsNonNegative
    /\ Calculated =>
          /\ \A i \in 1..Len(em_values_kg) : NonNegative(em_values_kg[i])
          /\ \A i \in 1..Len(df_breakdown) : NonNegative(df_breakdown[i].Emissions)
          /\ NonNegative(total_em_kg)
          /\ NonNegative(total_em_t)

\* an agriculture report in which all six sources emit
C5_Witness ==
    /\ Calculated
    /\ sector = Agriculture
    /\ \A i \in 1..6 : Positive(em_values_kg[i])
    /\ Positive(total_em_kg)

\* row i of the table holds the largest value and no earlier row holds it
FirstLargest(df, i) ==
    /\ \A j \in 1..Len(df) : FLeq(df[j].Emissions, df[i].Emissions)
    /\ \A j \in 1..(i - 1) : FLess(df[j].Emissions, df[i].Emissions)

C7_AsStated ==
    (call.fn = "compute_fertilizer_emissions" /\ NonNegative(call.args[1])) =>
        call.ret = FMul(call.args[1], fertilizer_emission_factor_kg_per_kgN)

\* C7 (amended): for n_kg >= 0 the three sequential steps give n_kg times the
\* composite factor up to floating-point rounding: the two are at most 6
\* units in the last place apart.
C7_FertilizerComposite ==
    (call.fn = "compute_fertilizer_emissions" /\ NonNegative(call.args[1])) =>
        WithinUlps(call.ret, FMul(call.args[1], fertilizer_emission_factor_kg_per_kgN), 6)

\* a positive n_kg on which the two computations differ in the last place
C7_Witness ==
    /\ call.fn = "compute_fertilizer_emissions"
    /\ Positive(call.args[1])
    /\ call.ret # FMul(call.args[1], fertilizer_emission_factor_kg_per_kgN)

\* C8: compute_steel_emissions(tonnes) is tonnes * 2.55 * 1000, in kg, for
\* every tonnes >= 0.
C8_SteelInKg ==
    (call.fn = "compute_steel_emissions" /\ NonNegative(call.args[1])) =>
        call.ret = FMul(FMul(call.args[1], Dec(255, 100)), FromNat(1000))

\* one tonne of steel gives 2550 kg
C8_Witness ==
    /\ call.fn = "compute_steel_emissions"
    /\ call.args[1] = FromNat(1)
    /\ call.ret = FromNat(2550)

Sources(df) == [i \in 1..Len(df) |-> df[i].Source]

AlloySources == <<"Steel production", "Electricity (grid)", "Diesel", "Petrol">>

\* steel_prod_t=10, elec_kwh=1000, diesel_l=0, petrol_l=0, baseline_t=30
AlloyScenario ==
    /\ sector = Alloy
    /\ inputs_dict = [steel_prod_t |-> FromNat(10), elec_kwh_alloy |-> FromNat(1000),
                      diesel_l_alloy |-> FZero, petrol_l_alloy |-> FZero]
    /\ baseline_tco2e = FromNat(30)

\* the alloy report has exactly the entries steel, electricity, diesel,
\* petrol; in the scenario steel is 25500 kg, electricity 716 kg, the total
\* 26216 kg and 26.216 t
AlloyReportShape ==
    /\ Sources(df_breakdown) = AlloySources
    /\ Len(em_values_kg) = 4
    /\ AlloyScenario =>
          /\ em_values_kg = <<FromNat(25500), FromNat(716), FZero, FZero>>
          /\ total_em_kg = FromNat(26216)
          /\ total_em_t = Dec(26216, 1000)

AgriSources ==
    <<"Synthetic nitrogen fertilizer", "Diesel", "Petrol", "Electricity (grid)",
      "Rice paddies", "Livestock (enteric methane)">>

\* area_ha=2, crop="General", fert_n_kg=100, diesel_l=50, petrol_l=0,
\* elec_kwh=200, livestock=5, baseline=0
AgriScenario ==
    /\ sector = Agriculture
    /\ inputs_dict = [area_ha |-> FromNat(2), crop_type |-> "General",
                      rice_yield_t |-> FZero, livestock_count |-> 5,
                      fert_n_kg |-> FromNat(100), diesel_l |-> FromNat(50),
                      petrol_l |-> FZero, elec_kwh |-> FromNat(200)]
    /\ baseline_tco2e = FZero

\* the agriculture report has exactly the six entries, in order; in the
\* scenario diesel is 134 kg, electricity 143.2 kg, livestock 4562.5 kg,
\* petrol and rice 0 and the credits 0
AgriReportShape ==
    /\ Sources(df_breakdown) = AgriSources
    /\ Len(em_values_kg) = 6
    /\ AgriScenario =>
          /\ em_values_kg[2] = FromNat(134)
          /\ em_values_kg[3] = FZero
          /\ em_values_kg[4] = Dec(1432, 10)
          /\ em_values_kg[5] = FZero
          /\ em_values_kg[6] = Dec(45625, 10)
          /\ potential_credits_t = FZero

\* C10 as stated: the agriculture report has exactly the six entries, and
\* the scenario yields fertilizer about 165.18 kg and a total of about
\* 5004.88 kg, about 5.00 t (to two decimals).
C10_AsStated ==
    (Calculated /\ sector = Agriculture) =>
        /\ AgriReportShape
        /\ AgriScenario =>
              /\ round2(em_values_kg[1]) = Dec(16518, 100)
              /\ round2(total_em_kg) = Dec(500488, 100)
              /\ round2(total_em_t) = Dec(500, 100)

\* C10 (amended): as stated, except that the fertilizer entry is about
\* 416.43 kg (100 * 0.01 * 44/28 * 265) and the total about 5256.13 kg,
\* about 5.26 t.
C10_AgriScenario ==
    (Calculated /\ sector = Agriculture) =>
        /\ AgriReportShape
        /\ AgriScenario =>
              /\ round2(em_values_kg[1]) = Dec(41643, 100)
              /\ round2(total_em_kg) = Dec(525613, 100)
              /\ round2(total_em_t) = Dec(526, 100)

\* the scenario's report
C10_Witness ==
    /\ Calculated
    /\ AgriScenario
    /\ Positive(em_values_kg[1])
    /\ df_breakdown[1].Emissions = Dec(41643, 100)

\* the current run has the sector, inputs and baseline of the remembered one
SameSubmission ==
    /\ remembered # Unset
    /\ remembered.sector = sector
    /\ remembered.inputs_dict = inputs_dict
    /\ remembered.baseline_tco2e = baseline_tco2e

report == <<em_values_kg, total_em_kg, total_em_t, potential_credits_t, df_breakdown>>

NoReport == report = <<Unset, Unset, Unset, Unset, Unset>>

\* all entries of the selected sector, total kg, total tonnes and credits
CompleteReport ==
    /\ \A i \in 1..Len(report) : report[i] # Unset
    /\ Sources(df_breakdown) = (IF sector = Agriculture THEN AgriSources ELSE AlloySources)
    /\ Len(em_values_kg) = Len(df_breakdown)

\* a run that was not submitted has calculated, built and offered nothing;
\* a report is complete or absent; the document exists only with the
\* complete report it was built from, the download only with the document
RunStates ==
    /\ ~submitted => (NoReport /\ pdf_bytes = Unset /\ ~download)
    /\ NoReport \/ CompleteReport
    /\ pdf_bytes # Unset =>
          /\ CompleteReport
          /\ pdf_bytes = mrv_section_B_reporting(total_em_kg, baseline_tco2e,
                                                 potential_credits_t, df_breakdown)
    /\ download => pdf_bytes # Unset

\* the report is calculated in a submitted run before any document, the
\* document is built from the report as it stands, before any download, and
\* the download is offered for the document as it stands
RunSteps ==
    /\ (NoReport /\ ~NoReport') => (submitted /\ pdf_bytes' = Unset /\ ~download')
    /\ (pdf_bytes = Unset /\ pdf_bytes' # Unset) =>
          (CompleteReport /\ report' = report /\ ~download')
    /\ (~download /\ download') =>
          (pdf_bytes # Unset /\ pdf_bytes' = pdf_bytes /\ report' = report)

\* C12: a run that is not submitted calculates nothing, builds no document
\* and offers no download; a submitted run calculates the complete report,
\* then builds the document from it, then offers the download; no state
\* holds a partial report.
C12_RunOrder == []RunStates /\ [][RunSteps]_vars

\* a submitted run that went through all three steps
C12_Witness ==
    /\ pc = "done"
    /\ submitted
    /\ CompleteReport
    /\ pdf_bytes # Unset
    /\ download

\* C13: the reporting section shows the baseline and the credit difference
\* exactly when the baseline is greater than 0 and says that no baseline was
\* provided otherwise; whenever it says so, the credits of the report are 0.
C13_BaselineBranch ==
    pc \in {"download", "done"} =>
        /\ pdf_bytes.baseline_shown <=> Positive(baseline_tco2e)
        /\ pdf_bytes.baseline_shown => pdf_bytes.credits_shown = potential_credits_t
        /\ ~pdf_bytes.baseline_shown =>
              (pdf_bytes.credits_shown = Unset /\ potential_credits_t = FZero)

\* a report with emissions and no baseline
C13_Witness ==
    /\ pc \in {"download", "done"}
    /\ ~pdf_bytes.baseline_shown
    /\ baseline_tco2e = FZero
    /\ Positive(total_em_kg)
    /\ potential_credits_t = FZero

\* the quantities main passes to the calculators
Quantities ==
    IF sector = Agriculture
    THEN <<inputs_dict.area_ha, inputs_dict.rice_yield_t, inputs_dict.fert_n_kg,
           inputs_dict.diesel_l, inputs_dict.petrol_l, inputs_dict.elec_kwh>>
    ELSE <<inputs_dict.steel_prod_t, inputs_dict.elec_kwh_alloy,
           inputs_dict.diesel_l_alloy, inputs_dict.petrol_l_alloy>>

\* the user entered a quantity or a baseline below zero
EnteredBelowZero ==
    /\ typed # Unset
    /\ \/ FLess(typed.baseline_tco2e, FZero)
       \/ \E f \in DOMAIN typed.inputs \ {"crop_type", "livestock_count"} :
              FLess(typed.inputs[f], FZero)
       \/ (sector = Agriculture /\ typed.inputs.livestock_count < 0)

\* C14: in every submitted run the quantities passed to the calculators and
\* the baseline are non-negative, and the rice yield is 0 unless the crop is
\* "Rice".
C14_InputsValidated ==
    submitted =>
        /\ \A k \in 1..Len(Quantities) : NonNegative(Quantities[k])
        /\ sector = Agriculture => inputs_dict.livestock_count >= 0
        /\ NonNegative(baseline_tco2e)
        /\ (sector = Agriculture /\ inputs_dict.crop_type # "Rice") =>
              inputs_dict.rice_yield_t = FZero

\* a quantity below zero was entered and the report was calculated all the same
C14_Witness ==
    /\ Calculated
    /\ EnteredBelowZero
    /\ Positive(total_em_kg)

\* the share is the dominant entry's rounded value over the unrounded total
\* kg, times 100, and 0 when the total is 0
ShareComputed ==
    /\ pdf_bytes.dominant_value = RoundColumn(df_breakdown)[idxmax(df_breakdown)].Emissions
    /\ pdf_bytes.share_pct =
          (IF total_em_kg = FZero THEN FZero
           ELSE FMul(FDiv(pdf_bytes.dominant_value, total_em_kg), FromNat(100)))
    /\ NonNegative(pdf_bytes.share_pct)

\* the share as the interpretation shows it, in hundredths of a percent
ShareShown == nice_number(pdf_bytes.share_pct).hundredths

\* C15 as stated: in every report the share of the dominant source is the
\* dominant entry's rounded value over the unrounded total kg (0 when the
\* total is 0) and the percentage shown lies between 0 and 100.
C15_AsStated ==
    pc \in {"download", "done"} =>
        /\ ShareComputed
        /\ BCmp(ShareShown, BFromNat(10000)) <= 0

\* one kWh of electricity alone: 0.716 kg, 0.72 kg in the table, shown as
\* 100.56 % of the total
C15_Witness ==
    /\ pc \in {"download", "done"}
    /\ inputs_dict = SmallElectricityTyped
    /\ pdf_bytes.dominant_source = "Electricity (grid)"
    /\ pdf_bytes.dominant_value = Dec(72, 100)
    /\ total_em_kg = Dec(716, 1000)
    /\ ShareShown = BFromNat(10056)

\* Exact arithmetic on non-negative floats: x as a whole multiple of 2^e,
\* for an e not above x's exponent.
ExactAt(x, e) == IF IsZero(x) THEN <<>> ELSE BShl(x.m, x.e - e)

\* the least exponent among the values and acc (zero counts as 2^0)
RECURSIVE LeastExp(_, _, _)
LeastExp(values, i, acc) ==
    IF i > Len(values) THEN acc
    ELSE LeastExp(values, i + 1,
                  IF ~IsZero(values[i]) /\ values[i].e < acc THEN values[i].e ELSE acc)

RECURSIVE ExactSum(_, _, _)
ExactSum(values, i, e) ==
    IF i > Len(values) THEN <<>>
    ELSE BAdd(ExactAt(values[i], e), ExactSum(values, i + 1, e))

\* |sum of the values - total| <= 0.005 * the number of values, with the sum
\* and the difference taken exactly; e is an exponent <= 0 below all of them
SumWithinAt(values, total, e) ==
    BCmp(BMulSmall(BAbsDiff(ExactSum(values, 1, e), ExactAt(total, e)), 1000),
         BShl(BFromNat(5 * Len(values)), -e)) <= 0

SumWithinHalfCents(values, total) ==
    SumWithinAt(values, total, LeastExp(values \o <<total>>, 1, 0))

Emissions(df) == [i \in 1..Len(df) |-> df[i].Emissions]

\* C16: the table holds each entry rounded to 2 decimals and the total kg is
\* the sum of the unrounded entries, so the sum of the table's rows is
\* within 0.005 kg per row of the total kg (0.03 kg for the six agriculture
\* rows, 0.02 kg for the four alloy rows); rounding the table once more, as
\* the reporting section does, changes no row.
C16_TableRounding ==
    Calculated =>
        /\ Emissions(df_breakdown) = [i \in 1..Len(em_values_kg) |-> round2(em_values_kg[i])]
        /\ total_em_kg = sum(em_values_kg)
        /\ SumWithinHalfCents(Emissions(df_breakdown), total_em_kg)
        /\ RoundColumn(df_breakdown) = df_breakdown
        /\ pc \in {"download", "done"} => pdf_bytes.table = df_breakdown

\* a report whose rounded rows do not add up to the total, with rows that
\* lay halfway between two hundredths
C16_Witness ==
    /\ pc \in {"download", "done"}
    /\ inputs_dict \in {AgriHalfCentsTyped, AlloyHalfCentsTyped}
    /\ sum(Emissions(df_breakdown)) # total_em_kg
    /\ \E i \in 1..Len(em_values_kg) : df_breakdown[i].Emissions # em_values_kg[i]
    /\ pdf_bytes.table = df_breakdown

QuantityLess(f, a, b) == IF f = "livestock_count" THEN a < b ELSE FLess(a, b)

\* new is old with one quantity increased, the crop type unchanged
SingleIncrease(old, new) ==
    /\ DOMAIN old = DOMAIN new
    /\ \E f \in DOMAIN old \ {"crop_type"} :
          /\ QuantityLess(f, old[f], new[f])
          /\ \A g \in DOMAIN old \ {f} : old[g] = new[g]

\* the current run has the sector and baseline of the remembered one and
\* its inputs with one quantity increased
IncreasedSubmission ==
    /\ remembered # Unset
    /\ remembered.sector = sector
    /\ remembered.baseline_tco2e = baseline_tco2e
    /\ SingleIncrease(remembered.inputs_dict, inputs_dict)

\* C17: with sector, crop type and baseline fixed, increasing one input
\* quantity does not decrease the total kg and does not increase the
\* potential credits; with a baseline above 0 the credits do not exceed it.
C17_Monotone ==
    Calculated =>
        /\ IncreasedSubmission =>
              /\ FLeq(remembered.total_em_kg, total_em_kg)
              /\ FLeq(potential_credits_t, remembered.potential_credits_t)
        /\ Positive(baseline_tco2e) => FLeq(potential_credits_t, baseline_tco2e)

\* a run with one quantity more than a remembered one, a larger total and
\* fewer credits
C17_Witness ==
    /\ pc = "download"
    /\ IncreasedSubmission
    /\ FLess(remembered.total_em_kg, total_em_kg)
    /\ FLess(potential_credits_t, remembered.potential_credits_t)
    /\ Positive(potential_credits_t)
====
